---- MODULE Spec2Model ----
(***************************************************************************)
(* Position normalisation and analytics pipeline of agenticAITrading:      *)
(* the venue adapters and the snapshot aggregator                          *)
(* (src/src/agents/portfolio_state.py), the cycle scheduler                *)
(* (src/src/core/orchestrator.py) and the tick ingestor                    *)
(* (src/src/agents/market_data.py), as asyncio tasks whose steps are the   *)
(* code between two await points; and the analytics engines (exposure,     *)
(* risk, attribution, scenario) as functions of a snapshot.                *)
(*                                                                         *)
(* Numbers: prices and PnL are integers (USD); sizes are integers counted  *)
(* in tenths of a unit (SizeScale), so that the mock position's size 0.5   *)
(* is 5.                                                                   *)
(***************************************************************************)
EXTENDS Integers, Sequences, FiniteSets, TLC

VARIABLES
    \* ---- configuration and environment (fixed during a run)
    configured,     \* settings: venue -> credentials present (config.py)
    venueBook,      \* venue -> raw positions the venue returns when it answers
    unresponsive,   \* venues whose call never returns
    msgBudget,      \* inbound messages the streams deliver in this run
    lossBudget,     \* connection losses and failed connects in this run
    \* ---- SystemOrchestrator
    running,        \* SystemOrchestrator.running
    orchPc,         \* position of the SystemOrchestrator.start task
    sleepFor,       \* argument of the asyncio.sleep the loop is in (0: none)
    lastCycle,      \* how the last run_cycle ended: "none" | "ok" | "raised"
    cycles,         \* run_cycle calls started so far
    activeCycles,   \* run_cycle calls entered and not yet left
    stopReturned,   \* SystemOrchestrator.stop has returned
    \* ---- run_cycle / fetch_snapshot locals
    cycPc,          \* position inside run_cycle / fetch_snapshot
    fetched,        \* venue -> what its adapter returned: binance_positions, ...
    snapshot,       \* the PortfolioSnapshot built by fetch_snapshot
    analytics_snap, \* the AnalyticsSnapshot object built by run_cycle
    cycleError,     \* exception that ended the cycle ("none" when none)
    stages,         \* stages of the scheduler state machine passed in this cycle
    storeAtStart,   \* the snapshot store as it was when this cycle began
    \* ---- snapshot store (SQL database)
    store,          \* [portfolio: Seq(PortfolioSnapshot), analytics: Seq(...)]
    \* ---- MarketDataAgent
    mktRunning,     \* MarketDataAgent.running
    mktPc,          \* position of the MarketDataAgent.start task
    tasks,          \* MarketDataAgent.tasks: streams whose task was created
    streamPc,       \* stream -> position of its _connect_* task
    cancelReq,      \* stream -> task.cancel() was called on its task
    conn,           \* stream -> "closed" | "open"
    subscribed,     \* stream -> subscription sent on the current connection
    ticks,          \* market_ticks table (tick store): venue -> its rows in insertion order
    lastMsg,        \* stream -> class of the last inbound message it handled
    msgCount,       \* stream -> inbound messages handled so far
    losses,         \* stream -> connection losses and failed connects so far
    \* ---- analytics engines called on a snapshot (exposure, risk,
    \*      attribution, scenario)
    engSnapshot,    \* the PortfolioSnapshot the engines are called with
    engOut          \* the last engine call: its name, arguments and result

schedVars == <<running, orchPc, sleepFor, lastCycle, cycles, activeCycles, stopReturned>>
cycleVars == <<cycPc, fetched, snapshot, analytics_snap, cycleError, stages, storeAtStart>>
envVars == <<configured, venueBook, unresponsive, msgBudget, lossBudget>>
mktVars == <<mktRunning, mktPc, tasks, streamPc, cancelReq, conn, subscribed>>
tickVars == <<ticks, lastMsg, msgCount, losses>>
engVars == <<engSnapshot, engOut>>
vars == <<envVars, schedVars, cycleVars, store, mktVars, tickVars, engVars>>

----------------------------------------------------------------------------
(* Bounds of the model *)

MaxCycles == 2      \* run_cycle calls per run
MaxMsgs == 2        \* inbound messages per run
MaxLosses == 2      \* connection losses per run
MaxPositions == 2   \* positions of a snapshot the engines are called with

(* Program constants *)

SizeScale == 10             \* sizes are stored in tenths: 0.5 is 5
CyclePeriod == 60           \* asyncio.sleep(60) after a cycle that returned
CycleCooldown == 5          \* asyncio.sleep(5) after a cycle that raised
StartingCash == 100000      \* "Mock assuming 100k starting cash"

Venues == {"binance", "hyperliquid", "okx", "delta"}
Streams == {"binance", "hyperliquid"}

----------------------------------------------------------------------------
(* Raw venue records.  A raw position is what the venue's client returns   *)
(* for one position: the fields the adapters read, the set of keys that    *)
(* are absent from the record (missing) and the set of keys whose value is *)
(* None (null).  For Hyperliquid, symbol is "coin", contracts is "szi" and *)
(* entryPrice is "entryPx".                                                *)

Raw(sym, contracts, side, entry, mark, pnl, lev, missing, null) ==
    [symbol |-> sym, contracts |-> contracts, amount |-> 0, side |-> side,
     entryPrice |-> entry, markPrice |-> mark, unrealizedPnl |-> pnl,
     leverage |-> lev, missing |-> missing, null |-> null]

\* p[k] raises KeyError; float(None) raises TypeError
IsNone(p, k) == k \in (p.missing \cup p.null)

\* Python truthiness of p.get(k) for a number: neither absent, None nor 0
TruthyNum(p, k, v) == ~IsNone(p, k) /\ v # 0

Abs(x) == IF x < 0 THEN -x ELSE x

NormalizedPosition(venue, sym, side, size, entry, mark, pnl, lev, levSet) ==
    [venue |-> venue, symbol |-> sym, side |-> side, size |-> size,
     entry_price |-> entry, mark_price |-> mark, unrealized_pnl |-> pnl,
     leverage |-> lev, leverage_set |-> levSet]

\* _mock_binance_positions: long 0.5 BTC/USDT, entry 95000, mark 96000
MockBinancePositions ==
    << NormalizedPosition("binance", "BTC/USDT", "long", 5, 95000, 96000, 500, 10, TRUE) >>

----------------------------------------------------------------------------
(* Venue adapters.  Each returns [isNone, positions]: isNone is TRUE when  *)
(* the coroutine returns None instead of a list.  An exception raised      *)
(* inside the adapter's try block ends the parsing; the except clause logs *)
(* it and the adapter returns what it had appended so far.                 *)

AdapterList(ps) == [isNone |-> FALSE, positions |-> ps]
AdapterNone == [isNone |-> TRUE, positions |-> << >>]

\* -- Binance (_fetch_binance_positions)
BinanceRowFails(p) ==
    \/ IsNone(p, "entryPrice")
    \/ ("markPrice" \in p.null /\ "markPrice" \notin p.missing)
    \/ IsNone(p, "unrealizedPnl")
    \/ IsNone(p, "leverage")
    \/ IsNone(p, "side")

BinanceRow(p) ==
    NormalizedPosition("binance", p.symbol, p.side, p.contracts, p.entryPrice,
        IF "markPrice" \in p.missing THEN p.entryPrice ELSE p.markPrice,
        p.unrealizedPnl, p.leverage, TRUE)

RECURSIVE BinanceRows(_, _, _)
BinanceRows(raws, i, acc) ==
    IF i > Len(raws) THEN acc
    ELSE IF BinanceRowFails(raws[i]) THEN acc
    ELSE BinanceRows(raws, i + 1, Append(acc, BinanceRow(raws[i])))

BinanceActive(p) == p.contracts > 0

BinanceParse(raws) ==
    IF \E i \in 1..Len(raws) : IsNone(raws[i], "contracts")
    THEN << >>
    ELSE BinanceRows(SelectSeq(raws, BinanceActive), 1, << >>)

\* -- OKX and Delta (the same loop body, lines 182-204 and 224-245)
CcxtSizeFails(p) ==
    ~TruthyNum(p, "contracts", p.contracts) /\ IsNone(p, "amount")

CcxtSize(p) ==
    IF TruthyNum(p, "contracts", p.contracts) THEN p.contracts ELSE p.amount

CcxtSide(p, size) ==
    IF "side" \notin p.null /\ p.side # "" THEN p.side
    ELSE IF size > 0 THEN "long" ELSE "short"

CcxtRow(venue, p) ==
    LET size == CcxtSize(p)
        entry == IF TruthyNum(p, "entryPrice", p.entryPrice) THEN p.entryPrice ELSE 0
        mark == IF TruthyNum(p, "markPrice", p.markPrice) THEN p.markPrice ELSE entry
        pnl == IF TruthyNum(p, "unrealizedPnl", p.unrealizedPnl) THEN p.unrealizedPnl ELSE 0
        lev == IF TruthyNum(p, "leverage", p.leverage) THEN p.leverage ELSE 1
    IN NormalizedPosition(venue, p.symbol, CcxtSide(p, size), Abs(size),
                          entry, mark, pnl, lev, TRUE)

RECURSIVE CcxtRows(_, _, _, _)
CcxtRows(venue, raws, i, acc) ==
    IF i > Len(raws) THEN acc
    ELSE IF CcxtSizeFails(raws[i]) THEN acc
    ELSE IF CcxtSize(raws[i]) = 0 THEN CcxtRows(venue, raws, i + 1, acc)
    ELSE IF "side" \in raws[i].missing THEN acc
    ELSE CcxtRows(venue, raws, i + 1, Append(acc, CcxtRow(venue, raws[i])))

OkxParse(raws) == CcxtRows("okx", raws, 1, << >>)
DeltaParse(raws) == CcxtRows("delta", raws, 1, << >>)

\* -- the exchange client of the ccxt adapters.  "await exchange.close()" is
\* the last statement of the try block (lines 160, 205, 246): it runs only
\* when neither the venue call nor the parsing of a position raised.
BinanceRaises(raws) ==
    \/ \E i \in 1..Len(raws) : IsNone(raws[i], "contracts")
    \/ \E i \in 1..Len(raws) : BinanceActive(raws[i]) /\ BinanceRowFails(raws[i])

RECURSIVE CcxtRaises(_, _)
CcxtRaises(raws, i) ==
    IF i > Len(raws) THEN FALSE
    ELSE IF CcxtSizeFails(raws[i]) THEN TRUE
    ELSE IF CcxtSize(raws[i]) = 0 THEN CcxtRaises(raws, i + 1)
    ELSE IF "side" \in raws[i].missing THEN TRUE
    ELSE CcxtRaises(raws, i + 1)

\* the client the adapter of venue v created, when the adapter returns:
\* "none" (Hyperliquid posts through an aiohttp session in an async with
\* block and has no exchange client), "closed" or "open"
ClientAfter(v, out, raws) ==
    IF v = "hyperliquid" THEN "none"
    ELSE IF out = "fail" THEN "open"
    ELSE IF v = "binance" /\ BinanceRaises(raws) THEN "open"
    ELSE IF v \in {"okx", "delta"} /\ CcxtRaises(raws, 1) THEN "open"
    ELSE "closed"

\* -- Hyperliquid (_fetch_hyperliquid_positions)
HyperSymbol(p) ==
    IF "symbol" \in p.missing THEN "UNKNOWN-USD"
    ELSE CASE p.symbol = "BTC" -> "BTC-USD"
           [] p.symbol = "ETH" -> "ETH-USD"
           [] p.symbol = "SOL" -> "SOL-USD"
           [] OTHER -> "UNKNOWN-USD"

HyperSze(p) == IF "contracts" \in p.missing THEN 0 ELSE p.contracts

HyperRowFails(p) ==
    \/ ("contracts" \in p.null /\ "contracts" \notin p.missing)
    \/ (HyperSze(p) # 0 /\ "entryPrice" \in p.null /\ "entryPrice" \notin p.missing)
    \/ (HyperSze(p) # 0 /\ "unrealizedPnl" \in p.null /\ "unrealizedPnl" \notin p.missing)

HyperRow(p) ==
    LET sze == HyperSze(p)
        side == IF sze > 0 THEN "long" ELSE "short"
        size == Abs(sze)
        entry == IF "entryPrice" \in p.missing THEN 0 ELSE p.entryPrice
        pnl == IF "unrealizedPnl" \in p.missing THEN 0 ELSE p.unrealizedPnl
        mark == IF side = "long" THEN ((pnl * SizeScale) \div size) + entry
                ELSE entry - ((pnl * SizeScale) \div size)
    IN NormalizedPosition("hyperliquid", HyperSymbol(p), side, size, entry, mark,
                          pnl, 0, FALSE)

RECURSIVE HyperRows(_, _, _)
HyperRows(raws, i, acc) ==
    IF i > Len(raws) THEN acc
    ELSE IF HyperRowFails(raws[i]) THEN acc
    ELSE IF HyperSze(raws[i]) = 0 THEN HyperRows(raws, i + 1, acc)
    ELSE HyperRows(raws, i + 1, Append(acc, HyperRow(raws[i])))

HyperParse(raws) == HyperRows(raws, 1, << >>)

\* an adapter that goes on to the venue without credentials and fails there
NotConfiguredResult_Mut(v) ==
    IF v = "binance" THEN AdapterList(MockBinancePositions)
    ELSE IF v = "delta" THEN AdapterNone
    ELSE AdapterList(<< >>)

\* What an adapter returns when its venue is not configured.
NotConfiguredResult(v) ==
    IF v = "binance" THEN AdapterList(MockBinancePositions)  \* fetch_snapshot, line 33
    ELSE AdapterList(<< >>)                                  \* "return []"

\* _fetch_delta_positions has no return statement after its try block.
DeltaResult(ps) == AdapterNone

\* What a configured adapter returns: out = "ok" when the venue call
\* answered with raws, "fail" when it raised (or, for Hyperliquid, answered
\* with a status other than 200).
ConfiguredResult(v, out, raws) ==
    LET ps == IF out = "fail" THEN << >>
              ELSE CASE v = "binance" -> BinanceParse(raws)
                     [] v = "hyperliquid" -> HyperParse(raws)
                     [] v = "okx" -> OkxParse(raws)
                     [] v = "delta" -> DeltaParse(raws)
    IN IF v = "delta" THEN DeltaResult(ps) ELSE AdapterList(ps)

----------------------------------------------------------------------------
(* Snapshot aggregator: fetch_snapshot, lines 44-83 *)

\* pos.symbol.split('/')[0] if '/' in pos.symbol else pos.symbol
BaseAsset(sym) ==
    CASE sym = "BTC/USDT" -> "BTC"
      [] sym = "ETH/USDT" -> "ETH"
      [] sym = "SOL/USDT" -> "SOL"
      [] OTHER -> sym

\* a margin that counts a position without leverage at its full notional
PositionMargin_Mut(pos) ==
    IF pos.leverage_set /\ pos.leverage # 0
    THEN (pos.size * pos.entry_price) \div (SizeScale * pos.leverage)
    ELSE (pos.size * pos.entry_price) \div SizeScale

\* (pos.size * pos.entry_price) / pos.leverage if pos.leverage else 0
PositionMargin(pos) ==
    IF pos.leverage_set /\ pos.leverage # 0
    THEN (pos.size * pos.entry_price) \div (SizeScale * pos.leverage)
    ELSE 0

RECURSIVE TotalMargin(_)
TotalMargin(ps) ==
    IF ps = << >> THEN 0 ELSE PositionMargin(Head(ps)) + TotalMargin(Tail(ps))

RECURSIVE TotalUpnl(_)
TotalUpnl(ps) ==
    IF ps = << >> THEN 0 ELSE Head(ps).unrealized_pnl + TotalUpnl(Tail(ps))

\* asset_breakdown[base_asset]["net_exposure"] += pos.size
RECURSIVE NetExposureOf(_, _)
NetExposureOf(asset, ps) ==
    IF ps = << >> THEN 0
    ELSE (IF BaseAsset(Head(ps).symbol) = asset THEN Head(ps).size ELSE 0)
         + NetExposureOf(asset, Tail(ps))

AssetBreakdown(ps) ==
    [a \in {BaseAsset(ps[i].symbol) : i \in 1..Len(ps)} |-> NetExposureOf(a, ps)]

\* The PortfolioSnapshot object of lines 76-83; id is 0 until it is committed.
BuildSnapshot(ps) ==
    [id |-> 0,
     total_equity_usd |-> StartingCash + TotalUpnl(ps),
     total_margin_used_usd |-> TotalMargin(ps),
     total_unrealized_pnl_usd |-> TotalUpnl(ps),
     asset_breakdown |-> AssetBreakdown(ps),
     positions |-> ps]

NoSnapshot == BuildSnapshot(<< >>)
NoAnalytics == [snapshot_id |-> 0]

\* binance_positions + hyper_positions + okx_positions + delta_positions
AllPositions(f) ==
    f["binance"].positions \o f["hyperliquid"].positions
        \o f["okx"].positions \o f["delta"].positions

\* list + None raises TypeError
ConcatRaises(f) == \E v \in Venues : f[v].isNone

----------------------------------------------------------------------------
(* run_cycle / fetch_snapshot as steps of the orchestrator task *)

At(a) == [at |-> a, venue |-> "-"]
AtVenue(a, v) == [at |-> a, venue |-> v]

\* the order of the awaits in fetch_snapshot, lines 31-42
AfterVenue(v) ==
    CASE v = "binance" -> AtVenue("call", "hyperliquid")
      [] v = "hyperliquid" -> AtVenue("call", "okx")
      [] v = "okx" -> AtVenue("call", "delta")
      [] v = "delta" -> At("aggregate")

\* the locals binance_positions, hyper_positions, okx_positions and
\* delta_positions; out records how the venue call ended ("ok", "fail",
\* "not_configured", or "-" before the adapter returned)
NotFetched ==
    [v \in Venues |-> [done |-> FALSE, out |-> "-", isNone |-> FALSE, positions |-> << >>,
                       client |-> "none"]]

Fetched(r, out, client) ==
    [done |-> TRUE, out |-> out, isNone |-> r.isNone, positions |-> r.positions,
     client |-> client]

\* the loop not waiting for the cycle it started (create_task in place of await)
AwaitsCycle_Mut == FALSE

\* "await self.run_cycle()": the loop goes on only when the cycle has ended
AwaitsCycle == TRUE

\* the full period after a failure too
SleepAfter_Mut(outcome) == CyclePeriod

\* lines 35 and 38: the sleep that follows a cycle
SleepAfter(outcome) == IF outcome = "raised" THEN CycleCooldown ELSE CyclePeriod

\* run_cycle raises: the except clause of start() logs and sleeps
CycleRaises(err) ==
    /\ cycPc' = At("raised")
    /\ cycleError' = err
    /\ activeCycles' = activeCycles - 1
    /\ lastCycle' = "raised"
    /\ orchPc' = "sleep"
    /\ sleepFor' = SleepAfter("raised")

\* run_cycle returns
CycleReturns ==
    /\ cycPc' = At("returned")
    /\ activeCycles' = activeCycles - 1
    /\ lastCycle' = "ok"
    /\ orchPc' = "sleep"
    /\ sleepFor' = SleepAfter("ok")

\* start(), line 32-34: the loop condition holds and run_cycle is entered
StartCycle ==
    /\ orchPc = "loop"
    /\ running
    /\ cycles < MaxCycles
    /\ orchPc' = IF AwaitsCycle THEN "in_cycle" ELSE "sleep"
    /\ sleepFor' = IF AwaitsCycle THEN 0 ELSE CyclePeriod
    /\ cycles' = cycles + 1
    /\ activeCycles' = activeCycles + 1
    /\ cycPc' = AtVenue("call", "binance")
    /\ fetched' = NotFetched
    /\ snapshot' = NoSnapshot
    /\ analytics_snap' = NoAnalytics
    /\ cycleError' = "none"
    /\ stages' = << "Fetching" >>
    /\ storeAtStart' = store
    /\ UNCHANGED <<envVars, engVars, running, lastCycle, stopReturned, store, mktVars, tickVars>>

\* fetch_snapshot calls the adapter of venue v
CallVenue(v) ==
    /\ cycPc = AtVenue("call", v)
    /\ IF configured[v]
       THEN /\ cycPc' = AtVenue("await", v)
            /\ UNCHANGED fetched
       ELSE /\ fetched' = [fetched EXCEPT ![v] = Fetched(NotConfiguredResult(v), "not_configured", "none")]
            /\ cycPc' = AfterVenue(v)
    /\ UNCHANGED <<envVars, engVars, schedVars, snapshot, analytics_snap, cycleError, stages,
                   storeAtStart, store, mktVars, tickVars>>

\* the venue call of a configured adapter ends: it answered or it raised
VenueResponds(v, out) ==
    /\ cycPc = AtVenue("await", v)
    /\ v \notin unresponsive
    /\ fetched' = [fetched EXCEPT ![v] = Fetched(ConfiguredResult(v, out, venueBook[v]), out,
                                                   ClientAfter(v, out, venueBook[v]))]
    /\ cycPc' = AfterVenue(v)
    /\ UNCHANGED <<envVars, engVars, schedVars, snapshot, analytics_snap, cycleError, stages,
                   storeAtStart, store, mktVars, tickVars>>

\* lines 44-86: concatenate, aggregate, build the snapshot, call _persist_snapshot
Aggregate ==
    /\ cycPc = At("aggregate")
    /\ IF ConcatRaises(fetched)
       THEN /\ CycleRaises("TypeError")
            /\ UNCHANGED <<snapshot, stages>>
       ELSE /\ snapshot' = BuildSnapshot(AllPositions(fetched))
            /\ stages' = stages \o << "Aggregating", "Persisting" >>
            /\ cycPc' = At("persist")
            /\ UNCHANGED <<cycleError, activeCycles, lastCycle, orchPc, sleepFor>>
    /\ UNCHANGED <<envVars, engVars, running, cycles, stopReturned, fetched, analytics_snap,
                   storeAtStart, store, mktVars, tickVars>>

\* _persist_snapshot: session.commit() succeeds and the snapshot gets its id
PersistOk ==
    /\ cycPc = At("persist")
    /\ LET saved == [snapshot EXCEPT !.id = Len(store.portfolio) + 1]
       IN /\ snapshot' = saved
          /\ store' = [store EXCEPT !.portfolio = Append(@, saved)]
    /\ cycPc' = At("analyze")
    /\ stages' = Append(stages, "Analyzing")
    /\ UNCHANGED <<envVars, engVars, schedVars, fetched, analytics_snap, cycleError, storeAtStart,
                   mktVars, tickVars>>

\* _persist_snapshot: session.commit() raises; the session rolls back
PersistFail ==
    /\ cycPc = At("persist")
    /\ CycleRaises("StoreError")
    /\ UNCHANGED <<envVars, engVars, running, cycles, stopReturned, fetched, snapshot, analytics_snap,
                   stages, storeAtStart, store, mktVars, tickVars>>

\* run_cycle, lines 45-60: the engines run, the AnalyticsSnapshot object is built
AnalyzeOk ==
    /\ cycPc = At("analyze")
    /\ analytics_snap' = [snapshot_id |-> snapshot.id]
    /\ CycleReturns
    /\ UNCHANGED <<envVars, engVars, running, cycles, stopReturned, fetched, snapshot, cycleError,
                   stages, storeAtStart, store, mktVars, tickVars>>

\* run_cycle, lines 45-60: an engine raises (for instance OverflowError at
\* "weight ** 2", analytics_exposure.py line 56)
AnalyzeFail ==
    /\ cycPc = At("analyze")
    /\ CycleRaises("AnalysisError")
    /\ UNCHANGED <<envVars, engVars, running, cycles, stopReturned, fetched, snapshot, analytics_snap,
                   stages, storeAtStart, store, mktVars, tickVars>>

----------------------------------------------------------------------------
(* SystemOrchestrator.start and stop *)

\* start(), lines 26-30, up to "await self.portfolio_agent.init_db()"
OrchStart ==
    /\ orchPc = "new"
    /\ running' = TRUE
    /\ mktPc' = "spawned"
    /\ orchPc' = "init_db"
    /\ UNCHANGED <<envVars, engVars, sleepFor, lastCycle, cycles, activeCycles, stopReturned,
                   cycleVars, store, mktRunning, tasks, streamPc, cancelReq, conn,
                   subscribed, tickVars>>

InitDbOk ==
    /\ orchPc = "init_db"
    /\ orchPc' = "loop"
    /\ UNCHANGED <<envVars, engVars, running, sleepFor, lastCycle, cycles, activeCycles, stopReturned,
                   cycleVars, store, mktVars, tickVars>>

\* init_db raises: start() has no handler around it, the task ends
InitDbFail ==
    /\ orchPc = "init_db"
    /\ orchPc' = "crashed"
    /\ UNCHANGED <<envVars, engVars, running, sleepFor, lastCycle, cycles, activeCycles, stopReturned,
                   cycleVars, store, mktVars, tickVars>>

\* the asyncio.sleep after a cycle ends
SleepDone ==
    /\ orchPc = "sleep"
    /\ orchPc' = "loop"
    /\ sleepFor' = 0
    /\ UNCHANGED <<envVars, engVars, running, lastCycle, cycles, activeCycles, stopReturned,
                   cycleVars, store, mktVars, tickVars>>

\* "while self.running" is false: start() returns
LoopExit ==
    /\ orchPc = "loop"
    /\ ~running
    /\ orchPc' = "exited"
    /\ UNCHANGED <<envVars, engVars, running, sleepFor, lastCycle, cycles, activeCycles, stopReturned,
                   cycleVars, store, mktVars, tickVars>>

\* MarketDataAgent.stop, lines 33-37
MarketStop ==
    /\ mktRunning' = FALSE
    /\ cancelReq' = [s \in Streams |-> cancelReq[s] \/ s \in tasks]

\* SystemOrchestrator.stop (called by the API's lifespan on shutdown, after
\* it created the start() task); it has no await that suspends
Stop ==
    /\ orchPc # "new"
    /\ ~stopReturned
    /\ running' = FALSE
    /\ MarketStop
    /\ stopReturned' = TRUE
    /\ UNCHANGED <<envVars, engVars, orchPc, sleepFor, lastCycle, cycles, activeCycles,
                   cycleVars, store, mktPc, tasks, streamPc, conn, subscribed, tickVars>>

----------------------------------------------------------------------------
(* Tick ingestor: MarketDataAgent *)

\* An inbound websocket message: kind is "ticker" (a Binance ticker event),
\* "allMids" (a Hyperliquid allMids event), "other" (valid JSON of another
\* shape: an acknowledgement, an unknown event) or "bad_json" (not JSON).
\* items are the prices it carries; valid is FALSE for a price float() rejects.
Item(sym, price, valid) == [symbol |-> sym, price |-> price, valid |-> valid]
Msg(kind, items) == [kind |-> kind, items |-> items]

BinanceMsgs ==
    { Msg("ticker", << Item("BTCUSDT", 100, TRUE) >>),
      Msg("ticker", << Item("BTCUSDT", 0, FALSE) >>),
      Msg("other", << >>),
      Msg("bad_json", << >>) }

HyperMsgs ==
    { Msg("allMids", << Item("BTC", 100, TRUE) >>),
      Msg("allMids", << Item("BTC", 100, TRUE), Item("ETH", 0, FALSE) >>),
      Msg("allMids", << Item("ETH", 0, FALSE) >>),
      Msg("other", << >>),
      Msg("bad_json", << >>) }

InboundMsgs(s) == IF s = "binance" THEN BinanceMsgs ELSE HyperMsgs

\* A message its stream's schema does not know ("unknown"), one that cannot
\* be normalised into ticks ("malformed"), or a well-formed one ("good").
MsgClass(s, m) ==
    IF m.kind = "bad_json" THEN "malformed"
    ELSE IF m.kind = "other" THEN "unknown"
    ELSE IF \E i \in 1..Len(m.items) : ~m.items[i].valid THEN "malformed"
    ELSE "good"

Tick(venue, item) == [venue |-> venue, symbol |-> item.symbol, last |-> item.price]

\* _parameterized_persist for the items in order, up to the first one whose
\* normalisation raises; an insert the tick store rejects (i \notin dbOk) is
\* logged and skipped.
RECURSIVE StoreItems(_, _, _, _, _)
StoreItems(venue, items, i, dbOk, acc) ==
    IF i > Len(items) THEN acc
    ELSE IF ~items[i].valid THEN acc
    ELSE StoreItems(venue, items, i + 1, dbOk,
                    IF i \in dbOk THEN Append(acc, Tick(venue, items[i])) ELSE acc)

\* whether handling message m raises inside the "while self.running" loop
HandlingRaises(s, m) ==
    \/ m.kind = "bad_json"                                   \* json.loads
    \/ (s = "binance" /\ m.kind # "ticker")                  \* data['s']: KeyError
    \/ (s = "binance" /\ \E i \in 1..Len(m.items) : ~m.items[i].valid)
    \/ (s = "hyperliquid" /\ m.kind = "allMids"
            /\ \E i \in 1..Len(m.items) : ~m.items[i].valid) \* float(price)

\* the ticks the handling of message m appends to the store
TicksStoredBy(s, m, dbOk, old) ==
    IF s = "binance"
    THEN IF HandlingRaises(s, m) THEN old ELSE StoreItems(s, m.items, 1, dbOk, old)
    ELSE IF m.kind = "allMids" THEN StoreItems(s, m.items, 1, dbOk, old) ELSE old

\* MarketDataAgent.start, lines 19-27, up to "await asyncio.gather(...)"
MarketStart ==
    /\ mktPc = "spawned"
    /\ mktRunning' = TRUE
    /\ tasks' = Streams
    /\ streamPc' = [s \in Streams |-> "loop"]
    /\ mktPc' = "gather"
    /\ UNCHANGED <<envVars, engVars, schedVars, cycleVars, store, cancelReq, conn, subscribed, tickVars>>

\* the gather of MarketDataAgent.start ends when both stream tasks have
MarketDone ==
    /\ mktPc = "gather"
    /\ \A s \in Streams : streamPc[s] \in {"done", "cancelled"}
    /\ mktPc' = "done"
    /\ UNCHANGED <<envVars, engVars, schedVars, cycleVars, store, mktRunning, tasks, streamPc,
                   cancelReq, conn, subscribed, tickVars>>

MsgsSoFar == msgCount["binance"] + msgCount["hyperliquid"]
LossesSoFar == losses["binance"] + losses["hyperliquid"]

StreamLive(s) == streamPc[s] \in {"loop", "connecting", "subscribe", "recv", "backoff"}

\* an except clause that gives the stream up instead of retrying
ToBackoff_Mut(s) ==
    /\ streamPc' = [streamPc EXCEPT ![s] = "done"]
    /\ conn' = [conn EXCEPT ![s] = "closed"]
    /\ subscribed' = [subscribed EXCEPT ![s] = FALSE]

\* the except clause of _connect_*: log, close the connection, sleep 5
ToBackoff(s) ==
    /\ streamPc' = [streamPc EXCEPT ![s] = "backoff"]
    /\ conn' = [conn EXCEPT ![s] = "closed"]
    /\ subscribed' = [subscribed EXCEPT ![s] = FALSE]

\* outer "while self.running": connect, or return when running is false
StreamLoop(s) ==
    /\ streamPc[s] = "loop"
    /\ ~cancelReq[s]
    /\ streamPc' = [streamPc EXCEPT ![s] = IF mktRunning THEN "connecting" ELSE "done"]
    /\ UNCHANGED <<envVars, engVars, schedVars, cycleVars, store, mktRunning, mktPc, tasks,
                   cancelReq, conn, subscribed, tickVars>>

\* websockets.connect succeeds
ConnectOk(s) ==
    /\ streamPc[s] = "connecting"
    /\ ~cancelReq[s]
    /\ conn' = [conn EXCEPT ![s] = "open"]
    /\ streamPc' = [streamPc EXCEPT ![s] = IF s = "hyperliquid" THEN "subscribe" ELSE "recv"]
    /\ UNCHANGED <<envVars, engVars, schedVars, cycleVars, store, mktRunning, mktPc, tasks,
                   cancelReq, subscribed, tickVars>>

\* websockets.connect raises
ConnectFail(s) ==
    /\ streamPc[s] = "connecting"
    /\ ~cancelReq[s]
    /\ LossesSoFar < lossBudget
    /\ losses' = [losses EXCEPT ![s] = @ + 1]
    /\ ToBackoff(s)
    /\ UNCHANGED <<envVars, engVars, schedVars, cycleVars, store, mktRunning, mktPc, tasks,
                   cancelReq, ticks, lastMsg, msgCount>>

\* _connect_hyperliquid, line 102: the subscription is sent
SubscribeOk(s) ==
    /\ streamPc[s] = "subscribe"
    /\ ~cancelReq[s]
    /\ subscribed' = [subscribed EXCEPT ![s] = TRUE]
    /\ streamPc' = [streamPc EXCEPT ![s] = "recv"]
    /\ UNCHANGED <<envVars, engVars, schedVars, cycleVars, store, mktRunning, mktPc, tasks,
                   cancelReq, conn, tickVars>>

\* ws.send raises: the connection was lost before the subscription
SubscribeFail(s) ==
    /\ streamPc[s] = "subscribe"
    /\ ~cancelReq[s]
    /\ LossesSoFar < lossBudget
    /\ losses' = [losses EXCEPT ![s] = @ + 1]
    /\ ToBackoff(s)
    /\ UNCHANGED <<envVars, engVars, schedVars, cycleVars, store, mktRunning, mktPc, tasks,
                   cancelReq, ticks, lastMsg, msgCount>>

\* ws.recv returns message m and the loop body handles it
Recv(s, m, dbOk) ==
    /\ streamPc[s] = "recv"
    /\ ~cancelReq[s]
    /\ MsgsSoFar < msgBudget
    /\ msgCount' = [msgCount EXCEPT ![s] = @ + 1]
    /\ lastMsg' = [lastMsg EXCEPT ![s] = MsgClass(s, m)]
    /\ ticks' = [ticks EXCEPT ![s] = TicksStoredBy(s, m, dbOk, @)]
    /\ IF HandlingRaises(s, m)
       THEN ToBackoff(s)
       ELSE IF mktRunning
       THEN UNCHANGED <<streamPc, conn, subscribed>>
       ELSE /\ streamPc' = [streamPc EXCEPT ![s] = "done"]
            /\ conn' = [conn EXCEPT ![s] = "closed"]
            /\ subscribed' = [subscribed EXCEPT ![s] = FALSE]
    /\ UNCHANGED <<envVars, engVars, schedVars, cycleVars, store, mktRunning, mktPc, tasks,
                   cancelReq, losses>>

\* ws.recv raises: the connection is lost
ConnLost(s) ==
    /\ streamPc[s] = "recv"
    /\ ~cancelReq[s]
    /\ LossesSoFar < lossBudget
    /\ losses' = [losses EXCEPT ![s] = @ + 1]
    /\ ToBackoff(s)
    /\ UNCHANGED <<envVars, engVars, schedVars, cycleVars, store, mktRunning, mktPc, tasks,
                   cancelReq, ticks, lastMsg, msgCount>>

\* asyncio.sleep(5) of the except clause ends
BackoffDone(s) ==
    /\ streamPc[s] = "backoff"
    /\ ~cancelReq[s]
    /\ streamPc' = [streamPc EXCEPT ![s] = "loop"]
    /\ UNCHANGED <<envVars, engVars, schedVars, cycleVars, store, mktRunning, mktPc, tasks,
                   cancelReq, conn, subscribed, tickVars>>

\* task.cancel(): CancelledError is raised at the await the task is
\* suspended on; "except Exception" does not catch it and the task ends
StreamCancelled(s) ==
    /\ cancelReq[s]
    /\ StreamLive(s)
    /\ streamPc' = [streamPc EXCEPT ![s] = "cancelled"]
    /\ conn' = [conn EXCEPT ![s] = "closed"]
    /\ subscribed' = [subscribed EXCEPT ![s] = FALSE]
    /\ UNCHANGED <<envVars, engVars, schedVars, cycleVars, store, mktRunning, mktPc, tasks,
                   cancelReq, tickVars>>

----------------------------------------------------------------------------
(* Inputs: what the venues hold *)

NoAmount == {"amount"}   \* unified position records carry no "amount" key

bnLong == Raw("ETH/USDT", 20, "long", 3000, 3100, 200, 5, NoAmount, {})
bnClosed == Raw("SOL/USDT", 0, "long", 150, 150, 0, 1, NoAmount, {"side"})
bnNullMark == Raw("BTC/USDT", 10, "short", 95000, 0, 100, 2, NoAmount, {"markPrice"})
hyShort == Raw("ETH", -100, "", 3000, 0, 500, 0, NoAmount \cup {"side", "markPrice", "leverage"}, {})
hyFlat == Raw("SOL", 0, "", 0, 0, 0, 0, NoAmount \cup {"side", "markPrice", "leverage"}, {})
okShort == Raw("BTC/USDT", -30, "", 95000, 0, -150, 0, NoAmount, {"side", "markPrice", "leverage"})
okLong == Raw("ETH/USDT", 10, "long", 3000, 3050, 50, 3, NoAmount, {})
dlLong == Raw("SOL/USDT", 40, "long", 150, 160, 40, 2, NoAmount, {})
\* a short reported as a negative size without a side; a closed position
bnSigned == Raw("BTC/USDT", -30, "", 95000, 95500, -150, 2, NoAmount, {"side"})
okFlat == Raw("SOL/USDT", 0, "", 0, 0, 0, 0, NoAmount, {"side", "markPrice", "leverage"})

Books ==
    { [v \in Venues |->
         CASE v = "binance" -> << bnLong >>
           [] v = "hyperliquid" -> << hyShort >>
           [] v = "okx" -> << okShort >>
           [] v = "delta" -> << dlLong >>],
      [v \in Venues |->
         CASE v = "binance" -> << bnClosed, bnSigned, bnLong, bnNullMark >>
           [] v = "hyperliquid" -> << hyFlat, hyShort >>
           [] v = "okx" -> << okLong, okFlat, okShort >>
           [] v = "delta" -> << >>] }

----------------------------------------------------------------------------
(* Analytics engines.  Each is a function of a PortfolioSnapshot.  Ratios   *)
(* the code computes by float division are kept exact, as a numerator and  *)
(* a denominator.                                                          *)

Ratio(n, d) == [num |-> n, den |-> d]

RECURSIVE Gcd(_, _)
Gcd(a, b) == IF b = 0 THEN Abs(a) ELSE Gcd(b, a % Abs(b))

\* -- ExposureAgent.compute_metrics (analytics_exposure.py)

\* notional = pos.size * pos.mark_price
Notional(pos) == pos.size * pos.mark_price

RECURSIVE GrossExposure(_)
GrossExposure(ps) ==
    IF ps = << >> THEN 0 ELSE Notional(Head(ps)) + GrossExposure(Tail(ps))

RECURSIVE NetExposure(_)
NetExposure(ps) ==
    IF ps = << >> THEN 0
    ELSE (IF Head(ps).side = "long" THEN Notional(Head(ps)) ELSE -Notional(Head(ps)))
         + NetExposure(Tail(ps))

\* asset_weights[sym] = asset_weights.get(sym, 0.0) + notional
RECURSIVE AssetWeight(_, _)
AssetWeight(sym, ps) ==
    IF ps = << >> THEN 0
    ELSE (IF Head(ps).symbol = sym THEN Notional(Head(ps)) ELSE 0)
         + AssetWeight(sym, Tail(ps))

\* the values of asset_weights, one per symbol, in order of first appearance
RECURSIVE WeightValues(_, _, _)
WeightValues(ps, i, acc) ==
    IF i > Len(ps) THEN acc
    ELSE IF \E j \in 1..(i - 1) : ps[j].symbol = ps[i].symbol
         THEN WeightValues(ps, i + 1, acc)
         ELSE WeightValues(ps, i + 1, Append(acc, AssetWeight(ps[i].symbol, ps)))

RECURSIVE GcdOf(_)
GcdOf(vals) == IF vals = << >> THEN 0 ELSE Gcd(Head(vals), GcdOf(Tail(vals)))

\* the sum of (val / unit) ** 2 over vals
RECURSIVE SumSquares(_, _)
SumSquares(vals, unit) ==
    IF vals = << >> THEN 0
    ELSE (Head(vals) \div unit) * (Head(vals) \div unit) + SumSquares(Tail(vals), unit)

\* lines 52-56: hhi = sum of (val / total_notional) ** 2 when total_notional > 0,
\* else 0.0.  Numerator and denominator are both divided by the square of
\* the values' common divisor, which leaves the ratio as it is.
Hhi(ps) ==
    LET vals == WeightValues(ps, 1, << >>)
        total == GrossExposure(ps)
        unit == GcdOf(vals)
    IN IF total > 0
       THEN Ratio(SumSquares(vals, unit), (total \div unit) * (total \div unit))
       ELSE Ratio(0, 1)

compute_exposure_metrics(snap) ==
    IF snap.positions = << >>
    THEN [gross_exposure_usd |-> 0, net_exposure_usd |-> 0, concentration_hhi |-> Ratio(0, 1)]
    ELSE [gross_exposure_usd |-> GrossExposure(snap.positions),
          net_exposure_usd |-> NetExposure(snap.positions),
          concentration_hhi |-> Hhi(snap.positions)]

\* -- RiskAgent (analytics_risk.py)

MinTicks == 10      \* "if len(df) < 10"
MinHourly == 2      \* "if len(hourly) < 2"

\* What the tick store and pandas give for one symbol: whether the query
\* succeeds, the number of ticks in the window, the number of hourly closes
\* after resampling, and the class of returns.std() * sqrt(24 * 365):
\* "finite", "nan" or "inf".
TickStats(queryOk, nTicks, hourly, std) ==
    [queryOk |-> queryOk, ticks |-> nTicks, hourly |-> hourly, std |-> std]

\* _get_asset_volatility: the class of the value returned, "zero" for 0.0
get_asset_volatility(stats) ==
    IF ~stats.queryOk THEN "zero"                       \* except Exception: return 0.0
    ELSE IF stats.ticks < MinTicks THEN "zero"
    ELSE IF stats.hourly < MinHourly THEN "zero"
    ELSE IF stats.std = "nan" THEN "zero"               \* np.isnan(vol)
    ELSE stats.std

RECURSIVE MaxOf(_)
MaxOf(xs) ==
    IF Len(xs) = 1 THEN xs[1]
    ELSE LET m == MaxOf(Tail(xs)) IN IF Head(xs) >= m THEN Head(xs) ELSE m

\* lines 20-28
Drawdown(equity_curve) ==
    IF equity_curve = << >> THEN Ratio(0, 1)
    ELSE LET peak == MaxOf(equity_curve)
             current == equity_curve[Len(equity_curve)]
         IN IF peak > 0 THEN Ratio(peak - current, peak) ELSE Ratio(0, 1)

\* lines 31-42: the class of total_var: every term is notional * vol * 1.645
TotalVar(snap, stats) ==
    LET vol == get_asset_volatility(stats)
    IN IF snap.positions = << >> \/ vol = "zero" THEN "zero"
       ELSE IF vol = "finite" THEN "finite"
       ELSE "not_finite"

compute_risk_metrics(snap, equity_curve, stats) ==
    [rolling_drawdown_pct |-> Drawdown(equity_curve),
     var_95_1d_pct |-> IF snap.total_equity_usd > 0 THEN TotalVar(snap, stats) ELSE "zero"]

\* -- AttributionAgent.compute_attribution (analytics_attribution.py)

\* {p.symbol: p for p in positions}[sym].unrealized_pnl, 0.0 when sym is not
\* a key: of several positions with one symbol the last one stays in the map
RECURSIVE PnlInMap(_, _)
PnlInMap(sym, ps) ==
    IF ps = << >> THEN 0
    ELSE IF ps[Len(ps)].symbol = sym THEN ps[Len(ps)].unrealized_pnl
    ELSE PnlInMap(sym, SubSeq(ps, 1, Len(ps) - 1))

Symbols(ps) == {ps[i].symbol : i \in 1..Len(ps)}

\* a change that forgets the previous value
AssetChange_Mut(sym, current, previous) ==
    PnlInMap(sym, current.positions)

\* change = curr_val - prev_val
AssetChange(sym, current, previous) ==
    PnlInMap(sym, current.positions) - PnlInMap(sym, previous.positions)

\* "abs(change) > 0.01": PnL is counted in whole dollars here, so a change
\* passes the noise filter exactly when it is not zero
PassesNoiseFilter(change) == Abs(change) >= 1

\* previous is [present, snap]: present is FALSE for None
compute_attribution(current, previous) ==
    IF ~previous.present
    THEN [message |-> "No previous snapshot for attribution"]
    ELSE LET all_symbols == Symbols(current.positions) \cup Symbols(previous.snap.positions)
             kept == {sym \in all_symbols :
                         PassesNoiseFilter(AssetChange(sym, current, previous.snap))}
         IN [total_pnl_change |-> current.total_unrealized_pnl_usd
                                    - previous.snap.total_unrealized_pnl_usd,
             asset_attribution |-> [sym \in kept |-> AssetChange(sym, current, previous.snap)]]

\* -- ScenarioAgent.simulate_shock (scenario_agent.py)

PctScale == 100     \* shocks are counted in percent: -0.10 is -10

\* money in the units of a size (tenths) times a price change (hundredths)
FineScale == PctScale * SizeScale

CoinOf(symbol) ==
    CASE symbol \in {"BTC/USDT", "BTC-USD"} -> "BTC"
      [] symbol \in {"ETH/USDT", "ETH-USD"} -> "ETH"
      [] symbol \in {"SOL/USDT", "SOL-USD"} -> "SOL"
      [] OTHER -> "UNKNOWN"

\* "asset in pos.symbol" for the keys BTC, ETH, SOL, XRP, USD and the symbols
\* of the venues: every symbol ends in USD or USDT
Contains(asset, symbol) ==
    asset = CoinOf(symbol) \/ asset = "USD" \/ asset = symbol

Shock(asset, shock) == [asset |-> asset, shock |-> shock]

\* a search that lets the last matching key win
RECURSIVE ShockFor_Mut(_, _)
ShockFor_Mut(symbol, shocks) ==
    IF shocks = << >> THEN 0
    ELSE IF Contains(shocks[Len(shocks)].asset, symbol) THEN shocks[Len(shocks)].shock
    ELSE ShockFor_Mut(symbol, SubSeq(shocks, 1, Len(shocks) - 1))

\* lines 37-41: shock_pct of a position, 0.0 when no key matches; shocks is
\* the mapping as the sequence of its items in mapping order
RECURSIVE ShockFor(_, _)
ShockFor(symbol, shocks) ==
    IF shocks = << >> THEN 0
    ELSE IF Contains(Head(shocks).asset, symbol) THEN Head(shocks).shock
    ELSE ShockFor(symbol, Tail(shocks))

\* a loop that shocks every position, by 0 too
ShockSkipped_Mut(shock_pct) == FALSE

\* "if shock_pct == 0.0: continue"
ShockSkipped(shock_pct) == shock_pct = 0

\* lines 46-67: new_mark is in hundredths of a dollar, pnl_change in FineScale
ShockDetail(pos, shock_pct) ==
    LET new_mark == pos.mark_price * (PctScale + shock_pct)
        new_pnl == IF pos.side = "long"
                   THEN (new_mark - pos.entry_price * PctScale) * pos.size
                   ELSE (pos.entry_price * PctScale - new_mark) * pos.size
    IN [symbol |-> pos.symbol,
        original_mark |-> pos.mark_price,
        new_mark |-> new_mark,
        pnl_change |-> new_pnl - pos.unrealized_pnl * FineScale]

RECURSIVE ShockDetails(_, _, _)
ShockDetails(ps, shocks, acc) ==
    IF ps = << >> THEN acc
    ELSE LET shock_pct == ShockFor(Head(ps).symbol, shocks)
         IN IF ShockSkipped(shock_pct)
            THEN ShockDetails(Tail(ps), shocks, acc)
            ELSE ShockDetails(Tail(ps), shocks, Append(acc, ShockDetail(Head(ps), shock_pct)))

\* an impact that is assigned, not accumulated: only one record counts
SumPnlChange_Mut(details) ==
    IF details = << >> THEN 0 ELSE Head(details).pnl_change

\* "pnl_impact += pnl_change" over the shocked positions
RECURSIVE SumPnlChange(_)
SumPnlChange(details) ==
    IF details = << >> THEN 0 ELSE Head(details).pnl_change + SumPnlChange(Tail(details))

\* the result dict; equities and pnl_impact are in FineScale
simulate_shock(snap, shocks) ==
    IF snap.positions = << >>
    THEN [original_equity |-> snap.total_equity_usd * FineScale,
          simulated_equity |-> snap.total_equity_usd * FineScale,
          pnl_impact |-> 0]
    ELSE LET simulated_positions == ShockDetails(snap.positions, shocks, << >>)
             pnl_impact == SumPnlChange(simulated_positions)
         IN [original_equity |-> snap.total_equity_usd * FineScale,
             simulated_equity |-> snap.total_equity_usd * FineScale + pnl_impact,
             pnl_impact |-> pnl_impact,
             details |-> simulated_positions]

\* -- the engines' inputs and calls

\* a Hyperliquid long whose reported loss exceeds its cost (the mark price
\* derived from it is negative), and an OKX long that lost 150000
hyDeepLoss == Raw("SOL", 10, "", 100, 0, -150, 0, NoAmount \cup {"side", "markPrice", "leverage"}, {})
okDeepLoss == Raw("ETH/USDT", 1000, "long", 3000, 1500, -150000, 3, NoAmount, {})

\* positions as the adapters return them
EnginePositions ==
    { MockBinancePositions[1], CcxtRow("okx", okShort), HyperRow(hyShort),
      HyperRow(hyDeepLoss), CcxtRow("okx", okDeepLoss) }

EngineSnapshots ==
    { BuildSnapshot(ps) : ps \in UNION { [1..n -> EnginePositions] : n \in 0..MaxPositions } }

\* equity histories: none, the one run_cycle passes (orchestrator.py line 47),
\* one without a positive peak, one with a peak in the middle
EquityCurves(snap) ==
    { << >>, << StartingCash, snap.total_equity_usd >>, << -5, -10 >>, << 100, 150, 120 >> }

\* std() of fewer than two returns is nan
TickStatsSet ==
    { TickStats(FALSE, 0, 0, "nan") }
    \cup { TickStats(TRUE, n, h, c) :
             n \in {0, MinTicks - 1, MinTicks, MinTicks + 2},
             h \in 0..3, c \in {"finite", "nan", "inf"} }

FeasibleStats(st) ==
    /\ st.hourly <= st.ticks
    /\ st.ticks > 0 => st.hourly >= 1
    /\ st.hourly <= MinHourly => st.std = "nan"

NoPrevious == [present |-> FALSE, snap |-> NoSnapshot]
Previous(snap) == [present |-> TRUE, snap |-> snap]

PreviousSnapshots(current) ==
    { NoPrevious, Previous(current) }
    \cup { Previous(BuildSnapshot(<< p >>)) : p \in EnginePositions }

ShockMaps ==
    { << >>,
      << Shock("BTC", -10) >>,
      << Shock("BTC", 0), Shock("ETH", 0) >>,
      << Shock("USD", 0), Shock("BTC", -10) >>,
      << Shock("BTC", -10), Shock("USD", 5) >>,
      << Shock("XRP", 20) >>,
      << Shock("ETH", 5), Shock("SOL", -50) >> }

NoCall == [op |-> "none"]

ComputeExposure ==
    /\ engOut' = [op |-> "exposure", result |-> compute_exposure_metrics(engSnapshot)]
    /\ UNCHANGED <<envVars, schedVars, cycleVars, store, mktVars, tickVars, engSnapshot>>

GetAssetVolatility(stats) ==
    /\ FeasibleStats(stats)
    /\ engOut' = [op |-> "volatility", stats |-> stats, result |-> get_asset_volatility(stats)]
    /\ UNCHANGED <<envVars, schedVars, cycleVars, store, mktVars, tickVars, engSnapshot>>

ComputeRisk(equity_curve, stats) ==
    /\ FeasibleStats(stats)
    /\ engOut' = [op |-> "risk", equity_curve |-> equity_curve, stats |-> stats,
                  result |-> compute_risk_metrics(engSnapshot, equity_curve, stats)]
    /\ UNCHANGED <<envVars, schedVars, cycleVars, store, mktVars, tickVars, engSnapshot>>

ComputeAttribution(previous) ==
    /\ engOut' = [op |-> "attribution", previous |-> previous,
                  result |-> compute_attribution(engSnapshot, previous)]
    /\ UNCHANGED <<envVars, schedVars, cycleVars, store, mktVars, tickVars, engSnapshot>>

SimulateShock(shocks) ==
    /\ engOut' = [op |-> "scenario", shocks |-> shocks,
                  result |-> simulate_shock(engSnapshot, shocks)]
    /\ UNCHANGED <<envVars, schedVars, cycleVars, store, mktVars, tickVars, engSnapshot>>

----------------------------------------------------------------------------
(* Specifications *)

\* the state after SystemOrchestrator() is constructed and the API's
\* lifespan has created the start() task
InitProgram ==
    /\ running = FALSE
    /\ orchPc = "new"
    /\ sleepFor = 0
    /\ lastCycle = "none"
    /\ cycles = 0
    /\ activeCycles = 0
    /\ stopReturned = FALSE
    /\ cycPc = At("idle")
    /\ fetched = NotFetched
    /\ snapshot = NoSnapshot
    /\ analytics_snap = NoAnalytics
    /\ cycleError = "none"
    /\ stages = << >>
    /\ store = [portfolio |-> << >>, analytics |-> << >>]
    /\ storeAtStart = [portfolio |-> << >>, analytics |-> << >>]
    /\ mktRunning = FALSE
    /\ mktPc = "none"
    /\ tasks = {}
    /\ streamPc = [s \in Streams |-> "none"]
    /\ cancelReq = [s \in Streams |-> FALSE]
    /\ conn = [s \in Streams |-> "closed"]
    /\ subscribed = [s \in Streams |-> FALSE]
    /\ ticks = [s \in Streams |-> << >>]
    /\ lastMsg = [s \in Streams |-> "none"]
    /\ msgCount = [s \in Streams |-> 0]
    /\ losses = [s \in Streams |-> 0]

\* no engine is called outside run_cycle
NoEngineCall ==
    /\ engSnapshot = NoSnapshot
    /\ engOut = NoCall

\* any settings, any of the books, at most one venue that never answers
Init ==
    /\ configured \in [Venues -> BOOLEAN]
    /\ venueBook \in Books
    /\ unresponsive \in {S \in SUBSET Venues : Cardinality(S) <= 1 /\ \A v \in S : configured[v]}
    /\ msgBudget = MaxMsgs
    /\ lossBudget = MaxLosses
    /\ InitProgram
    /\ NoEngineCall

SchedStep ==
    \/ OrchStart
    \/ InitDbOk
    \/ InitDbFail
    \/ StartCycle
    \/ \E v \in Venues : CallVenue(v)
    \/ \E v \in Venues, out \in {"ok", "fail"} : VenueResponds(v, out)
    \/ Aggregate
    \/ PersistOk
    \/ PersistFail
    \/ AnalyzeOk
    \/ AnalyzeFail
    \/ SleepDone
    \/ LoopExit

IngestStep ==
    \/ MarketStart
    \/ MarketDone
    \/ \E s \in Streams : StreamLoop(s)
    \/ \E s \in Streams : ConnectOk(s)
    \/ \E s \in Streams : ConnectFail(s)
    \/ SubscribeOk("hyperliquid")
    \/ SubscribeFail("hyperliquid")
    \/ \E s \in Streams, m \in BinanceMsgs \cup HyperMsgs, dbOk \in SUBSET (1..2) :
          m \in InboundMsgs(s) /\ Recv(s, m, dbOk)
    \/ \E s \in Streams : ConnLost(s)
    \/ \E s \in Streams : BackoffDone(s)
    \/ \E s \in Streams : StreamCancelled(s)

\* The cycle scheduler: start(), run_cycle, fetch_snapshot and stop().  The
\* steps of the ingestor tasks change none of the variables these read.
Next == SchedStep \/ Stop

Spec == Init /\ [][Next]_vars

\* The scheduler under asyncio's scheduling: a task that can take a step
\* takes one, and a venue that answers does so eventually.  A venue in
\* unresponsive never answers, and nothing in the adapters bounds the wait.
FairSpec == Spec /\ WF_vars(SchedStep)

\* The tick ingestor with what starts and stops it, under the default
\* settings of config.py (no venue configured).  The steps of the scheduler's
\* cycles change none of the variables these read.
InitIngest ==
    /\ configured = [v \in Venues |-> FALSE]
    /\ venueBook \in Books
    /\ unresponsive = {}
    /\ msgBudget = MaxMsgs
    /\ lossBudget = MaxLosses
    /\ InitProgram
    /\ NoEngineCall

NextIngest == OrchStart \/ Stop \/ IngestStep

SpecIngest == InitIngest /\ [][NextIngest]_vars

\* asyncio runs every task that is ready: a stream task that can take a step
\* of its own (its loop condition, the end of its sleep, its cancellation)
\* takes it.
FairSpecIngest ==
    SpecIngest /\ \A s \in Streams : WF_vars(StreamLoop(s) \/ BackoffDone(s) \/ StreamCancelled(s))

\* The whole system, scheduler and ingestor tasks interleaved, with
\* Hyperliquid the one venue configured and a stream environment that
\* delivers at most one message and one connection loss.
InitSys ==
    /\ configured = [v \in Venues |-> v = "hyperliquid"]
    /\ venueBook \in Books
    /\ unresponsive = {}
    /\ msgBudget = 1
    /\ lossBudget = 1
    /\ InitProgram
    /\ NoEngineCall

NextSys == SchedStep \/ Stop \/ IngestStep

SpecSys == InitSys /\ [][NextSys]_vars

\* The analytics engines called on a snapshot, as the API and run_cycle
\* call them: any snapshot of up to MaxPositions positions, any order of calls.
InitEngines ==
    /\ configured = [v \in Venues |-> FALSE]
    /\ venueBook = CHOOSE b \in Books : b["delta"] = << >>
    /\ unresponsive = {}
    /\ msgBudget = MaxMsgs
    /\ lossBudget = MaxLosses
    /\ InitProgram
    /\ engSnapshot \in EngineSnapshots
    /\ engOut = NoCall

NextEngines ==
    \/ ComputeExposure
    \/ \E stats \in TickStatsSet : GetAssetVolatility(stats)
    \/ \E equity_curve \in EquityCurves(engSnapshot), stats \in TickStatsSet :
          ComputeRisk(equity_curve, stats)
    \/ \E previous \in PreviousSnapshots(engSnapshot) : ComputeAttribution(previous)
    \/ \E shocks \in ShockMaps : SimulateShock(shocks)

SpecEngines == InitEngines /\ [][NextEngines]_vars

----------------------------------------------------------------------------
(* Claims about fetch_snapshot *)

FetchReturned == cycPc.at \in {"analyze", "returned"}

\* the normalised positions of venue v, as its adapter parses them
VenuePositions(v) ==
    CASE v = "binance" -> BinanceParse(venueBook[v])
      [] v = "hyperliquid" -> HyperParse(venueBook[v])
      [] v = "okx" -> OkxParse(venueBook[v])
      [] v = "delta" -> DeltaParse(venueBook[v])

\* what venue v is to contribute: its positions when its call succeeded
Contribution(v) == IF fetched[v].out = "ok" THEN VenuePositions(v) ELSE << >>

SucceededPositions ==
    Contribution("binance") \o Contribution("hyperliquid")
        \o Contribution("okx") \o Contribution("delta")

\* C1: whatever each venue does (succeeds, fails, is not configured),
\* fetch_snapshot raises nothing (a failure of the snapshot store apart) and
\* the snapshot it returns holds exactly the positions of the venues that
\* succeeded, a failed venue contributing an empty list.
C1_FetchToleratesVenueFailure ==
    /\ cycleError \notin {"TypeError"}
    /\ \A v \in Venues : fetched[v].done /\ fetched[v].out = "fail" =>
           ~fetched[v].isNone /\ fetched[v].positions = << >>
    /\ FetchReturned => snapshot.positions = SucceededPositions

\* C10 as stated: an adapter whose venue has no credentials contributes an
\* empty list, and a snapshot fetched with no venue configured has no positions.
C10_NotConfiguredIsEmpty ==
    /\ \A v \in Venues : fetched[v].done /\ ~configured[v] =>
           ~fetched[v].isNone /\ fetched[v].positions = << >>
    /\ FetchReturned /\ (\A v \in Venues : ~configured[v]) => snapshot.positions = << >>

\* C10 amended: without credentials the Hyperliquid, OKX and Delta adapters
\* contribute an empty list and Binance contributes the fixed mock position;
\* a snapshot fetched with no venue configured holds exactly that mock position.
C10_NotConfiguredIsEmptyOrMock ==
    /\ \A v \in Venues : fetched[v].done /\ ~configured[v] =>
           /\ ~fetched[v].isNone
           /\ fetched[v].positions = IF v = "binance" THEN MockBinancePositions ELSE << >>
    /\ FetchReturned /\ (\A v \in Venues : ~configured[v]) =>
           snapshot.positions = MockBinancePositions

C10_Witness ==
    /\ \A v \in Venues : ~configured[v]
    /\ cycPc = At("returned")
    /\ Len(store.portfolio) = 1
    /\ store.portfolio[1].positions = MockBinancePositions

\* C6: when one venue never answers and the others do, a fetch that began
\* eventually returns a snapshot holding the positions of the other venues,
\* the silent venue contributing nothing.
FetchInProgress == cycPc.at \in {"call", "await", "aggregate", "persist"}

\* the snapshot returned holds, for the silent venue, nothing and, for every
\* venue that answered, the positions it holds
SnapshotOfTheOthers ==
    /\ FetchReturned
    /\ \A v \in unresponsive : fetched[v].positions = << >>
    /\ \A v \in Venues : fetched[v].out = "ok" => fetched[v].positions = VenuePositions(v)
    /\ snapshot.positions = AllPositions(fetched)

C6_UnresponsiveVenueDoesNotStall ==
    (FetchInProgress /\ cycles = 1 /\ unresponsive # {})
        ~> ((cycles = 1 /\ SnapshotOfTheOthers) \/ cycleError = "StoreError")

----------------------------------------------------------------------------
(* Claims about the cycle scheduler *)

CycleFailed == cycPc = At("raised")
CycleCompleted == cycPc = At("returned")

\* C2: a cycle that failed at any stage leaves the snapshot store as it was
\* when the cycle began: nothing the failed cycle wrote remains.
C2_FailedCycleLeavesNoRecord ==
    CycleFailed => store = storeAtStart

\* C3: a cycle that completed passed through Fetching, Aggregating, Analyzing
\* and Persisting in this order, and the store then holds exactly one
\* AnalyticsSnapshot whose snapshot_id is the id of the cycle's snapshot.
C3_CompletedCyclePersistsAnalytics ==
    CycleCompleted =>
        /\ stages = << "Fetching", "Aggregating", "Analyzing", "Persisting" >>
        /\ Cardinality({i \in 1..Len(store.analytics) :
                            store.analytics[i].snapshot_id = snapshot.id}) = 1

CycleInProgress == cycPc.at \in {"call", "await", "aggregate", "persist", "analyze"}

\* C5: at most one run_cycle is in progress in any state, and where the loop
\* can start a cycle the previous one has returned or raised.
C5_NoConcurrentCycles ==
    /\ activeCycles <= 1
    /\ CycleInProgress => activeCycles = 1 /\ orchPc = "in_cycle"
    /\ orchPc # "in_cycle" => activeCycles = 0

C5_Witness ==
    /\ cycles = 2
    /\ activeCycles = 1
    /\ lastCycle = "ok"
    /\ cycPc.at = "await"

\* C7: the sleep after a cycle that raised is the cooldown (5), the sleep after
\* a cycle that returned is the period (60); the end of a cycle, raised or
\* not, leads to that sleep, the sleep leads back to the loop condition, and
\* the loop ends only there and only when running is false.
C7_CooldownAfterFailure ==
    /\ [](orchPc = "sleep" =>
            /\ lastCycle = "raised" => sleepFor = 5
            /\ lastCycle = "ok" => sleepFor = 60)
    /\ [][orchPc = "in_cycle" /\ orchPc' # "in_cycle" =>
            /\ orchPc' = "sleep"
            /\ lastCycle' = (IF cycleError' = "none" THEN "ok" ELSE "raised")]_vars
    /\ [][orchPc = "sleep" /\ orchPc' # "sleep" => orchPc' = "loop" /\ running' = running]_vars
    /\ [][orchPc' = "exited" /\ orchPc # "exited" => orchPc = "loop" /\ ~running]_vars

C7_Witness ==
    /\ cycles = 2
    /\ orchPc = "in_cycle"
    /\ lastCycle = "raised"
    /\ running

----------------------------------------------------------------------------
(* Claims about starting and stopping *)

StreamTaskExists(s) == streamPc[s] # "none"
StreamTaskEnded(s) == streamPc[s] \in {"done", "cancelled"}

\* C4: in every interleaving of start(), the MarketDataAgent.start task and
\* stop(): once stop() has returned, every stream task that exists has ended
\* or has its cancellation under way, no stream task is created any more, and
\* the scheduler loop enters no further cycle.
C4_StopIsFinal ==
    /\ [](stopReturned =>
            \A s \in Streams : StreamTaskExists(s) => StreamTaskEnded(s) \/ cancelReq[s])
    /\ [][stopReturned =>
            \A s \in Streams : ~StreamTaskExists(s) => ~StreamTaskExists(s)']_vars
    /\ [][stopReturned => cycles' = cycles]_vars

----------------------------------------------------------------------------
(* Claims about the tick streams *)

Handled(s) == msgCount'[s] # msgCount[s]

\* C8: a stream that handles a malformed or unknown message stores no tick
\* for it and its task goes on (it does not end); the other stream's task, its
\* connection and its ticks are as they were.
C8_BadMessageIsDropped ==
    [][\A s \in Streams :
          Handled(s) /\ lastMsg'[s] \in {"malformed", "unknown"} =>
              /\ ticks'[s] = ticks[s]
              /\ StreamLive(s)'
              /\ \A t \in Streams \ {s} :
                    /\ streamPc'[t] = streamPc[t]
                    /\ conn'[t] = conn[t]
                    /\ ticks'[t] = ticks[t]]_vars

IngestorStopping(s) == cancelReq[s] \/ ~mktRunning

\* C9: while the ingestor runs, every connection loss puts the stream into
\* the backoff sleep with its connection closed, and a stream in the backoff
\* sleep comes to a new connect attempt, however many losses came before; a connected Hyperliquid stream receives only after it sent its
\* subscription on that connection; a stream task ends only when the ingestor
\* is being stopped; and ticks are stored only by a stream whose connection
\* is open.
C9_ReconnectAfterLoss ==
    /\ \A s \in Streams :
          (streamPc[s] = "backoff") ~> (streamPc[s] = "connecting" \/ IngestorStopping(s))
    /\ [][\A s \in Streams :
            losses'[s] # losses[s] => streamPc'[s] = "backoff" /\ conn'[s] = "closed"]_vars
    /\ [](streamPc["hyperliquid"] = "recv" => subscribed["hyperliquid"])
    /\ [][\A s \in Streams :
            StreamLive(s) /\ ~StreamLive(s)' => IngestorStopping(s)]_vars
    /\ [][\A s \in Streams :
            ticks'[s] # ticks[s] => conn[s] = "open" /\ streamPc[s] = "recv"]_vars

\* Hyperliquid receives again after two losses in a row, resubscribed
C9_Witness ==
    /\ losses["hyperliquid"] = 2
    /\ streamPc["hyperliquid"] = "recv"
    /\ subscribed["hyperliquid"]
    /\ conn["hyperliquid"] = "open"
    /\ mktRunning
    /\ ~cancelReq["hyperliquid"]

----------------------------------------------------------------------------
(* Claims about the aggregates of a snapshot *)

RECURSIVE SumSeq(_)
SumSeq(xs) == IF xs = << >> THEN 0 ELSE Head(xs) + SumSeq(Tail(xs))

SnapshotBuilt == cycPc.at \in {"persist", "analyze", "returned"}

MarginOf(pos) ==
    IF pos.leverage_set
    THEN (pos.size * pos.entry_price) \div (SizeScale * pos.leverage)
    ELSE 0

\* C11: in every snapshot fetch_snapshot has built, total_unrealized_pnl_usd
\* is the sum of the positions' unrealized_pnl, and total_margin_used_usd is
\* the sum of size * entry_price / leverage over the positions whose leverage
\* is set, a position without leverage adding 0.
C11_SnapshotTotals ==
    SnapshotBuilt =>
        LET ps == snapshot.positions
        IN /\ snapshot.total_unrealized_pnl_usd
                = SumSeq([i \in 1..Len(ps) |-> ps[i].unrealized_pnl])
           /\ snapshot.total_margin_used_usd
                = SumSeq([i \in 1..Len(ps) |-> MarginOf(ps[i])])

\* a snapshot that mixes positions with and without leverage
C11_Witness ==
    /\ SnapshotBuilt
    /\ \E i, j \in 1..Len(snapshot.positions) :
          /\ snapshot.positions[i].leverage_set
          /\ ~snapshot.positions[j].leverage_set
    /\ snapshot.total_margin_used_usd > 0
    /\ snapshot.total_unrealized_pnl_usd # 0

----------------------------------------------------------------------------
(* Claims about the normalisation of raw positions *)

NonZeroSize(p) == p.contracts # 0
SidePresent(p) == "side" \notin (p.missing \cup p.null) /\ p.side # ""

\* side and size the raw position p is to be normalised to
SideAndSize(side, size) == [side |-> side, size |-> size]
ResolvedSideAndSize(p) ==
    SideAndSize(IF SidePresent(p) THEN p.side
                ELSE IF p.contracts > 0 THEN "long" ELSE "short",
                Abs(p.contracts))

ResolvedBook(raws) ==
    LET live == SelectSeq(raws, NonZeroSize)
    IN [i \in 1..Len(live) |-> ResolvedSideAndSize(live[i])]

SidesAndSizes(ps) == [i \in 1..Len(ps) |-> SideAndSize(ps[i].side, ps[i].size)]

\* C12: the positions an adapter returns for the raw positions its venue
\* answered with are, in order, those of non-zero signed size s, each with
\* the venue-reported side when there is one, else long for s > 0 and short
\* for s < 0, and with size |s| > 0; positions with s = 0 are left out.
C12_SideAndSizeResolved ==
    \A v \in Venues :
        fetched[v].out = "ok" =>
            /\ SidesAndSizes(fetched[v].positions) = ResolvedBook(venueBook[v])
            /\ \A i \in 1..Len(fetched[v].positions) : fetched[v].positions[i].size > 0

----------------------------------------------------------------------------
(* Claims about asset_breakdown *)

SignedSize(pos) == IF pos.side = "long" THEN pos.size ELSE -pos.size

SignedExposure(asset, ps) ==
    SumSeq([i \in 1..Len(ps) |->
               IF BaseAsset(ps[i].symbol) = asset THEN SignedSize(ps[i]) ELSE 0])

\* C13: in every snapshot built, asset_breakdown has one entry per base asset
\* of its positions, holding the net exposure of that asset: the sizes of
\* its long positions minus the sizes of its short positions.
C13_BreakdownIsNetExposure ==
    SnapshotBuilt =>
        LET ps == snapshot.positions
        IN /\ DOMAIN snapshot.asset_breakdown = {BaseAsset(ps[i].symbol) : i \in 1..Len(ps)}
           /\ \A a \in DOMAIN snapshot.asset_breakdown :
                 snapshot.asset_breakdown[a] = SignedExposure(a, ps)

----------------------------------------------------------------------------
(* Claims about the analytics engines *)

Called(op) == engOut.op = op

Permuted(ps, perm) == [i \in 1..Len(ps) |-> ps[perm[i]]]

\* C14: for every snapshot, the concentration_hhi compute_metrics returns
\* lies in [0,1], is the same for every order of the positions, and is 1 when
\* the snapshot has a single position (which then holds all the notional).
C14_HhiInUnitInterval ==
    Called("exposure") =>
        LET ps == engSnapshot.positions
            hhi == engOut.result.concentration_hhi
        IN /\ hhi.den > 0 /\ 0 <= hhi.num /\ hhi.num <= hhi.den
           /\ \A perm \in Permutations(1..Len(ps)) :
                 compute_exposure_metrics(BuildSnapshot(Permuted(ps, perm))).concentration_hhi = hhi
           /\ (Len(ps) = 1 /\ Notional(ps[1]) # 0) => hhi.num = hhi.den

\* the largest value of a non-empty history
Peak(history) == CHOOSE x \in {history[i] : i \in 1..Len(history)} :
                     \A i \in 1..Len(history) : history[i] <= x

\* C15: for every equity history, rolling_drawdown_pct is
\* (peak - current) / peak with peak the largest value of the history and
\* current its last one, 0 when the history is empty or its peak is not
\* positive, and the value lies in [0,1].
C15_DrawdownInUnitInterval ==
    Called("risk") =>
        LET history == engOut.equity_curve
            dd == engOut.result.rolling_drawdown_pct
        IN /\ dd = IF history = << >> \/ Peak(history) <= 0 THEN Ratio(0, 1)
                   ELSE Ratio(Peak(history) - history[Len(history)], Peak(history))
           /\ dd.den > 0 /\ 0 <= dd.num /\ dd.num <= dd.den

\* the cases in which the volatility of a symbol is to be 0.0
NoUsableVolatility(stats) ==
    \/ ~stats.queryOk
    \/ stats.ticks < 10
    \/ stats.hourly < 2
    \/ stats.std # "finite"

\* C16: _get_asset_volatility returns 0.0 whenever the window holds fewer
\* than 10 ticks, fewer than 2 hourly points are left, the computed value is
\* not a finite number or the query fails; the VaR sum of a risk computation
\* over such a symbol is then 0.
C16_VolatilityFallsBackToZero ==
    /\ Called("volatility") /\ NoUsableVolatility(engOut.stats)
          => engOut.result = "zero"
    /\ Called("risk") /\ NoUsableVolatility(engOut.stats)
          => engOut.result.var_95_1d_pct = "zero"

ComparedWithItself == Called("attribution") /\ engOut.previous = Previous(engSnapshot)

\* C17: compute_attribution(S, S), the current and the previous snapshot
\* being the same, returns total_pnl_change = 0 and an empty
\* asset_attribution.
C17_AttributionOfSameSnapshot ==
    ComparedWithItself =>
        /\ engOut.result.total_pnl_change = 0
        /\ DOMAIN engOut.result.asset_attribution = {}

\* a snapshot of two positions with PnL compared with itself
C17_Witness ==
    /\ ComparedWithItself
    /\ Len(engSnapshot.positions) = 2
    /\ engSnapshot.total_unrealized_pnl_usd # 0
    /\ \A i \in 1..2 : engSnapshot.positions[i].unrealized_pnl # 0

AllShocksZero(shocks) == \A k \in 1..Len(shocks) : shocks[k].shock = 0

Matches(pos, shocks) == \E k \in 1..Len(shocks) : Contains(shocks[k].asset, pos.symbol)

\* the stored PnL is not what the side formula gives at the current mark
StalePnl(pos) ==
    pos.unrealized_pnl * SizeScale #
        (IF pos.side = "long" THEN pos.mark_price - pos.entry_price
         ELSE pos.entry_price - pos.mark_price) * pos.size

\* C18: when every shock of the mapping is 0, simulate_shock returns
\* pnl_impact = 0 and simulated_equity = original_equity, whatever PnL the
\* positions have stored.
C18_ZeroShockChangesNothing ==
    Called("scenario") /\ AllShocksZero(engOut.shocks) =>
        /\ engOut.result.pnl_impact = 0
        /\ engOut.result.simulated_equity = engOut.result.original_equity
        /\ engOut.result.original_equity = engSnapshot.total_equity_usd * FineScale

\* a zero shock on a position whose stored PnL the formula would change
C18_Witness ==
    /\ Called("scenario")
    /\ engOut.shocks # << >>
    /\ AllShocksZero(engOut.shocks)
    /\ \E i \in 1..Len(engSnapshot.positions) :
          /\ Matches(engSnapshot.positions[i], engOut.shocks)
          /\ StalePnl(engSnapshot.positions[i])

\* the shock of the first key, in mapping order, that the symbol contains
FirstMatch(pos, shocks) ==
    shocks[CHOOSE k \in 1..Len(shocks) :
              /\ Contains(shocks[k].asset, pos.symbol)
              /\ \A j \in 1..(k - 1) : ~Contains(shocks[j].asset, pos.symbol)].shock

\* the detail record of a position shocked by shock percent
ExpectedDetail(pos, shock) ==
    LET new_mark == (pos.mark_price * (PctScale + shock))
        new_pnl == IF pos.side = "long"
                   THEN (new_mark - PctScale * pos.entry_price) * pos.size
                   ELSE (PctScale * pos.entry_price - new_mark) * pos.size
    IN [symbol |-> pos.symbol, original_mark |-> pos.mark_price, new_mark |-> new_mark,
        pnl_change |-> new_pnl - FineScale * pos.unrealized_pnl]

\* the detail records of the matched positions, in order; those matched with
\* a shock of 0 are among them only if zeroToo
RECURSIVE ExpectedDetails(_, _, _)
ExpectedDetails(ps, shocks, zeroToo) ==
    IF ps = << >> THEN << >>
    ELSE LET pos == Head(ps)
             rest == ExpectedDetails(Tail(ps), shocks, zeroToo)
         IN IF Matches(pos, shocks) /\ (zeroToo \/ FirstMatch(pos, shocks) # 0)
            THEN << ExpectedDetail(pos, FirstMatch(pos, shocks)) >> \o rest
            ELSE rest

DetailsOf(result) == IF "details" \in DOMAIN result THEN result.details ELSE << >>

ShockResultIs(details) ==
    /\ DetailsOf(engOut.result) = details
    /\ engOut.result.pnl_impact
          = SumSeq([i \in 1..Len(details) |-> details[i].pnl_change])
    /\ engOut.result.simulated_equity
          = engOut.result.original_equity + engOut.result.pnl_impact

\* C19, as stated: every position whose symbol contains a key of the mapping
\* is shocked by the first such key and has a detail record with
\* new_mark = mark * (1 + shock) and pnl_delta = new_pnl - old PnL; the other
\* positions have no record and add nothing to pnl_impact.
C19_EveryMatchedPositionShocked ==
    Called("scenario") =>
        ShockResultIs(ExpectedDetails(engSnapshot.positions, engOut.shocks, TRUE))

\* C19, amended: the same for the positions whose first matching key has a
\* shock other than 0; a position matched with a shock of 0 is treated as
\* one that matches no key (no record, nothing added to pnl_impact).
C19_NonZeroMatchedPositionShocked ==
    Called("scenario") =>
        ShockResultIs(ExpectedDetails(engSnapshot.positions, engOut.shocks, FALSE))

\* the mock position under BTC -10%: new_mark 86400, pnl_delta -4800
C19_Witness ==
    /\ Called("scenario")
    /\ engSnapshot.positions = << MockBinancePositions[1] >>
    /\ engOut.shocks = << Shock("BTC", -10) >>
    /\ Len(engOut.result.details) = 1
    /\ engOut.result.details[1].new_mark = 86400 * PctScale
    /\ engOut.result.details[1].pnl_change = -4800 * FineScale
    /\ engOut.result.pnl_impact = -4800 * FineScale

\* C20: for every snapshot, one with no positions included, the result of
\* simulate_shock has the four fields original_equity, simulated_equity,
\* pnl_impact and details, details being the list of the shock records
\* (empty when no position was shocked).
C20_ResultHasFourFields ==
    Called("scenario") =>
        /\ DOMAIN engOut.result
              = {"original_equity", "simulated_equity", "pnl_impact", "details"}
        /\ (\A i \in 1..Len(engSnapshot.positions) :
               ShockSkipped(ShockFor(engSnapshot.positions[i].symbol, engOut.shocks)))
              => engOut.result.details = << >>

----------------------------------------------------------------------------
(* Claims about the mark price fallback *)

\* the venue left the mark price out: the key is missing or its value is None
MarkOmitted(p) == IsNone(p, "markPrice")

EntryOf(p) == IF IsNone(p, "entryPrice") THEN 0 ELSE p.entryPrice

\* the raw position p as the venue would have sent it with mark = entry
WithEntryAsMark(p) ==
    IF MarkOmitted(p)
    THEN [p EXCEPT !.markPrice = EntryOf(p),
                   !.missing = @ \ {"markPrice"}, !.null = @ \ {"markPrice"}]
    ELSE p

EntryAsMarkBook(raws) == [i \in 1..Len(raws) |-> WithEntryAsMark(raws[i])]

MarkedAtEntry(ps) == [i \in 1..Len(ps) |-> [ps[i] EXCEPT !.mark_price = ps[i].entry_price]]

\* what venue v is to return when the omission costs nothing: the positions
\* it returns for the same book with every omitted mark price set to the
\* entry price (Hyperliquid records carry no mark price at all)
FallbackPositions(v) ==
    CASE v = "binance" -> BinanceParse(EntryAsMarkBook(venueBook[v]))
      [] v = "hyperliquid" -> MarkedAtEntry(HyperParse(venueBook[v]))
      [] v = "okx" -> OkxParse(EntryAsMarkBook(venueBook[v]))
      [] v = "delta" -> DeltaParse(EntryAsMarkBook(venueBook[v]))

\* C21: for every venue adapter whose venue answered with a book in which
\* some raw position has no mark price (key missing or value None), the
\* adapter returns a list, and the list is the one it returns for the same
\* book with entry price in the place of each omitted mark price: those
\* positions get mark_price = entry_price, and they and all the other
\* positions of the venue are returned.
C21_MarkPriceFallback ==
    \A v \in Venues :
        (fetched[v].out = "ok" /\ \E i \in 1..Len(venueBook[v]) : MarkOmitted(venueBook[v][i])) =>
            /\ ~fetched[v].isNone
            /\ fetched[v].positions = FallbackPositions(v)
----------------------------------------------------------------------------
(* Claims about the sum of the attribution *)

\* the unrealized PnL a snapshot holds in symbol sym, over all its positions
SymbolPnl(sym, ps) ==
    SumSeq([i \in 1..Len(ps) |-> IF ps[i].symbol = sym THEN ps[i].unrealized_pnl ELSE 0])

RECURSIVE SumOfValues(_, _)
SumOfValues(f, keys) ==
    IF keys = {} THEN 0
    ELSE LET k == CHOOSE x \in keys : TRUE
         IN f[k] + SumOfValues(f, keys \ {k})

\* every per-symbol PnL delta is above the noise floor: the delta of the
\* symbol's PnL between the two snapshots, and the change the engine computes
EveryDeltaAboveNoise(current, previous) ==
    \A sym \in Symbols(current.positions) \cup Symbols(previous.positions) :
        /\ PassesNoiseFilter(SymbolPnl(sym, current.positions)
                               - SymbolPnl(sym, previous.positions))
        /\ PassesNoiseFilter(AssetChange(sym, current, previous))

\* C22: for every current and previous snapshot whose per-symbol PnL deltas
\* all exceed the noise floor, the values of asset_attribution returned by
\* compute_attribution sum to total_pnl_change, also when a snapshot holds
\* several positions with one symbol.
C22_AttributionSumsToTotal ==
    (/\ Called("attribution")
     /\ engOut.previous.present
     /\ EveryDeltaAboveNoise(engSnapshot, engOut.previous.snap)) =>
        SumOfValues(engOut.result.asset_attribution, DOMAIN engOut.result.asset_attribution)
            = engOut.result.total_pnl_change

----------------------------------------------------------------------------
(* Claims about the totals of a scenario result *)

\* the position received a shock other than 0: the first key of the mapping
\* its symbol contains has one
ShockedNonZero(pos, shocks) == Matches(pos, shocks) /\ FirstMatch(pos, shocks) # 0

ShockedPositions(ps, shocks) == SelectSeq(ps, LAMBDA pos : ShockedNonZero(pos, shocks))

SymbolsInOrder(xs) == [i \in 1..Len(xs) |-> xs[i].symbol]

\* C23: every result of simulate_shock has
\* simulated_equity = original_equity + pnl_impact; when it has details,
\* pnl_impact is the sum of pnl_change over the detail records, and there is
\* exactly one detail record per position that received a non-zero shock
\* (in the order of the positions).
C23_ScenarioTotalsAddUp ==
    Called("scenario") =>
        LET result == engOut.result
        IN /\ result.simulated_equity = result.original_equity + result.pnl_impact
           /\ "details" \in DOMAIN result =>
                 /\ result.pnl_impact
                       = SumSeq([i \in 1..Len(result.details) |-> result.details[i].pnl_change])
                 /\ SymbolsInOrder(result.details)
                       = SymbolsInOrder(ShockedPositions(engSnapshot.positions, engOut.shocks))

\* two positions shocked by different keys, each with a PnL change
C23_Witness ==
    /\ Called("scenario")
    /\ Len(engSnapshot.positions) = 2
    /\ "details" \in DOMAIN engOut.result
    /\ Len(engOut.result.details) = 2
    /\ \A i \in 1..2 : engOut.result.details[i].pnl_change # 0
    /\ engOut.result.details[1].symbol # engOut.result.details[2].symbol
    /\ engOut.result.simulated_equity # engOut.result.original_equity

----------------------------------------------------------------------------
(* Claims about the exchange clients *)

CcxtVenues == {"binance", "okx", "delta"}

\* C24: when the adapter of Binance, OKX or Delta has returned, the exchange
\* client it opened during the fetch is closed, whether the venue call and
\* the parsing succeeded or one of them raised.
C24_ClientClosedOnReturn ==
    \A v \in CcxtVenues : fetched[v].done => fetched[v].client # "open"
====
